---- MODULE Spec2Model ----
(***************************************************************************)
(* Credential and session authority of bilal-tube: login, logout, refresh  *)
(* token rotation, change-password and the authentication gate, modelled   *)
(* as concurrent request handlers over the User collection.  Every handler *)
(* is split at its awaited store operations; each store operation is one   *)
(* atomic step.                                                            *)
(***************************************************************************)
EXTENDS Integers, FiniteSets, Sequences, TLC

VARIABLES clock, variant, users, req, resp, issued, rotated, started,
          cloud, videos, likes, comments, subscriptions

\* the Video, Like, Comment and Subscription collections
contentVars == <<videos, likes, comments, subscriptions>>

vars == <<clock, variant, users, req, resp, issued, rotated, started, cloud, contentVars>>

(* ------------------------------ bounds -------------------------------- *)

\* the clock runs over whole seconds 0..MaxClock (jsonwebtoken stamps iat in seconds)
MaxClock == 2

\* at most MaxRequests requests are sent in one behaviour
MaxRequests == 3

\* ACCESS_TOKEN_EXPIRY / REFRESH_TOKEN_EXPIRY of the environment, in seconds
ACCESS_TOKEN_EXPIRY == 1
REFRESH_TOKEN_EXPIRY == 2

Clients == {"c1", "c2"}
UserIds == {"u1"}
\* an identifier that resolves to no account (the account was removed)
GhostId == "u2"
AllIds == UserIds \cup {GhostId}
Passwords == {"p1", "p2"}
Times == 0..MaxClock
\* the email and password fields a caller can send to login
LoginInputs == {<<"e1", "p1">>, <<"e1", "p2">>, <<"e9", "p1">>, <<"e9", "p2">>,
                <<"", "p1">>, <<"e1", "">>}

\* the revisions of the session handlers that the repository holds; the
\* handlers of user.controller.js reject their promise on an error, which
\* Express 4 and Express 5 treat differently, so that revision counts twice
Variants == {"part_005", "user.controller/express4", "user.controller/express5",
             "auth.controllers"}

(* ------------------------------ tokens -------------------------------- *)

\* k: "A" signed with ACCESS_TOKEN_SECRET, "R" signed with REFRESH_TOKEN_SECRET
\*    (each a bad signature under the other secret), "junk" not a JWT,
\*    "none" no token at all
Tok(k, id, iat) == [k |-> k, id |-> id, iat |-> iat]
NoToken == Tok("none", "", 0)
JunkToken == Tok("junk", "", 0)

\* jwt.sign(payload, secret, {expiresIn}): the token is a function of the
\* payload, the secret and the issue time in whole seconds, nothing else
generateAccessToken(user, now) == Tok("A", user, now)

generateRefreshToken(user, now) == Tok("R", user, now)

Expiry(k) == IF k = "A" THEN ACCESS_TOKEN_EXPIRY ELSE REFRESH_TOKEN_EXPIRY

\* jwt.verify(token, secret): signature by that secret and now < exp
jwtVerify(tok, k, now) == tok.k = k /\ now < tok.iat + Expiry(k)

RefreshTokens == {Tok("R", id, t) : id \in UserIds, t \in Times} \cup {Tok("R", GhostId, 0)}
AccessTokens == {Tok("A", id, t) : id \in UserIds, t \in Times} \cup {Tok("A", GhostId, 0)}
\* what a caller can put into the refreshToken cookie or body field
RefreshInputs == RefreshTokens \cup {Tok("A", "u1", 0), JunkToken, NoToken}
\* what a caller can put into the accessToken cookie
AccessInputs == AccessTokens \cup {Tok("R", "u1", 0), JunkToken, NoToken}
\* what a caller can put into the accessToken cookie and the Authorization
\* header of one request: a cookie alone, a header alone, or both
GateInputs ==
  {<<t, NoToken>> : t \in AccessInputs}
    \cup {<<t, Tok("A", "u1", 0)>> : t \in {NoToken, JunkToken, Tok("A", "u1", MaxClock)}}

(* ----------------------------- passwords ------------------------------ *)

\* argon.hash: a digest that is not the plaintext
argonHash(plain) == [alg |-> "argon2", of |-> plain]

\* userSchema.methods.isValidPassword: argon.verify(this.password, password)
isValidPassword(digest, password) == digest.alg = "argon2" /\ digest.of = password

\* the password each account was registered with
RegPassword(u) == "p1"
EmailOf(u) == "e1"

\* User.findOne({email}): the accounts with that address
findOne(email) == {u \in DOMAIN users : users[u].email = email}

(* ----------------------------- requests ------------------------------- *)

\* a new request arrives and is served in slot c, the first free one (the
\* slots are interchangeable: they only tell the requests in flight apart)
Arrives(c) ==
  /\ req[c].pc = "idle"
  /\ c = "c2" => req["c1"].pc # "idle"
  /\ started < MaxRequests
  /\ started' = started + 1

\* an asset on the media host: the upload of kind `kind` made by the request
\* that slot `by` served when n requests had started; NoAsset is null
Asset(by, n, kind) == [by |-> by, n |-> n, kind |-> kind]
NoAsset == Asset("", 0, "none")

\* the _id of the document created by the request that slot `by` served
\* when n requests had started
DocId(by, n) == [by |-> by, n |-> n]
NoDoc == DocId("", 0)

\* a request in flight: the handler's position and its local variables;
\* cookie and header are the credentials a client that is about to send a
\* request holds, when the specification fixes them beforehand
Idle == [op |-> "none", pc |-> "idle", uid |-> "", tok |-> NoToken, t1 |-> 0,
         stale |-> FALSE, newpw |-> "", cookie |-> NoToken, header |-> NoToken,
         user |-> {}, username |-> "", email |-> "", cause |-> "", n |-> 0,
         avatar |-> NoAsset, coverImage |-> NoAsset, old |-> NoAsset,
         target |-> "", found |-> NoDoc, views |-> 0]

\* the response sent last: status 0 is a request left without any response;
\* user is the set of account fields the body's `user` carries
NoResp == [op |-> "none", cause |-> "", status |-> 0, msg |-> "", email |-> "",
           password |-> "", tok |-> NoToken, stale |-> FALSE, uid |-> "",
           cookieA |-> NoToken, cookieR |-> NoToken, user |-> {}]

\* the paths of userSchema
Fields == {"username", "email", "fullName", "avatar", "coverImage", "password",
           "refreshToken"}

\* Query.select("-a -b"): the document without the excluded paths
select(excluded) == Fields \ excluded

\* nothing on the media host and empty content collections: the session
\* routes neither read nor write them
NoContent ==
  /\ cloud = {}
  /\ videos = <<>> /\ likes = {} /\ comments = <<>> /\ subscriptions = {}

Init ==
  /\ clock = 0
  /\ variant \in Variants
  /\ users = [u \in UserIds |->
                [email |-> EmailOf(u), password |-> argonHash(RegPassword(u)),
                 refreshToken |-> NoToken]]
  /\ req = [c \in Clients |-> Idle]
  /\ resp = NoResp
  /\ issued = {}
  /\ rotated = {}
  /\ started = 0
  /\ NoContent

Tick ==
  /\ clock < MaxClock
  /\ clock' = clock + 1
  /\ UNCHANGED <<variant, cloud, contentVars, users, req, resp, issued, rotated, started>>

(* ------------------------- error responses ---------------------------- *)

Resp(s, m) == [status |-> s, msg |-> m]

\* errorHandler(err, req, res, next): err.statusCode || 500, err.message
errorHandler(statusCode, message) ==
  Resp(IF statusCode = 0 THEN 500 ELSE statusCode, message)

\* A handler declared (req, res) whose catch block calls next(error) or throws:
\* the async handler rejects.  Express 4 leaves the request unanswered
\* (status 0); Express 5 forwards the rejection, which carries the given
\* statusCode (0 when it has none), to the error handler.
Rejects(v, statusCode, message) ==
  IF v = "user.controller/express4" THEN Resp(0, "") ELSE errorHandler(statusCode, message)

\* loginUser: what each revision answers on each failing branch
loginUserFailure(v, cause) ==
  CASE v = "part_005" ->
         IF cause = "missing"
           THEN errorHandler(400, "Email and password are required")
           ELSE errorHandler(401, "Invalid credentials")
    [] v = "auth.controllers" ->
         (CASE cause = "missing" -> Resp(400, "All fields are required.")
            [] cause = "nouser" -> Resp(404, "User not found")
            [] OTHER -> Resp(401, "Invalid credentials"))
    [] OTHER -> Rejects(v, 0, "next is not defined")

\* refreshAccessToken: what each revision answers on each failing branch;
\* "verify" is jwt.verify throwing (malformed, bad signature or expired),
\* an error without a statusCode
refreshAccessTokenFailure(v, cause) ==
  CASE v = "part_005" ->
         (CASE cause = "missing" -> errorHandler(401, "Refresh token is required")
            [] cause = "verify" -> errorHandler(0, "jwt error")
            [] OTHER -> errorHandler(401, "Invalid refresh token"))
    [] v = "auth.controllers" ->
         (CASE cause = "missing" -> Resp(401, "Unauthorized request")
            [] cause = "verify" -> Resp(500, "Internal server error")
            [] OTHER -> Resp(401, "Invalid refresh token"))
    [] OTHER ->
         (CASE cause = "missing" -> Resp(401, "Refresh token is required")
            [] cause = "verify" -> Resp(401, "jwt error")
            [] OTHER -> Resp(401, "Invalid refresh token"))

\* changePassword: what each revision answers when the old password is wrong
changePasswordFailure(v) ==
  CASE v = "part_005" -> errorHandler(401, "Invalid old password")
    [] v = "auth.controllers" -> Resp(401, "Invalid password")
    [] OTHER -> Rejects(v, 500, "Internal Server Error")

(* ------------------------------ login --------------------------------- *)

\* the branch loginUser takes up to and including isValidPassword
loginUserBranch(email, password) ==
  IF email = "" \/ password = "" THEN "missing"
  ELSE IF findOne(email) = {} THEN "nouser"
  ELSE IF \E u \in findOne(email) : ~isValidPassword(users[u].password, password)
       THEN "badpw"
  ELSE "ok"

\* loginUser up to `await user.isValidPassword(password)`: validation,
\* User.findOne({email}) and the password check on the document read
loginUser_findOne(c, email, password) ==
  /\ Arrives(c)
  /\ LET b == loginUserBranch(email, password)
     IN IF b = "ok"
          THEN /\ \E u \in findOne(email) :
                    req' = [req EXCEPT ![c] = [Idle EXCEPT !.op = "login", !.pc = "lsave",
                                                           !.uid = u, !.t1 = clock,
                                                           !.tok = users[u].refreshToken]]
               /\ resp' = resp
          ELSE /\ LET f == loginUserFailure(variant, b)
                  IN resp' = [NoResp EXCEPT !.op = "login", !.cause = b,
                                            !.status = f.status, !.msg = f.msg,
                                            !.email = email, !.password = password]
               /\ req' = req
  /\ UNCHANGED <<clock, variant, cloud, contentVars, users, issued, rotated>>

\* Document.save() after `user.refreshToken = token` on a document that was
\* loaded holding `loaded`: an assignment of the value the path already has
\* leaves the path unmodified and save() writes nothing; otherwise it $sets
\* the path, whatever the store holds by then
save(u, loaded, token) ==
  IF token = loaded THEN users ELSE [users EXCEPT ![u].refreshToken = token]

\* loginUser from generateAccessToken to the response: the tokens are signed
\* at some second `now` between the read and the write, user.save() writes the
\* modified refreshToken path, the response sets both cookies
loginUser_save(c) ==
  /\ req[c].op = "login" /\ req[c].pc = "lsave"
  /\ \E now \in req[c].t1..clock :
       LET u == req[c].uid
           accessToken == generateAccessToken(u, now)
           refreshToken == generateRefreshToken(u, now)
       IN /\ users' = save(u, req[c].tok, refreshToken)
          /\ resp' = [NoResp EXCEPT !.op = "login", !.cause = "ok", !.status = 200,
                                    !.msg = "User logged in successfully", !.uid = u,
                                    !.cookieA = accessToken, !.cookieR = refreshToken,
                                    !.user = select({"password", "refreshToken"})]
          /\ issued' = issued \cup {refreshToken}
  /\ req' = [req EXCEPT ![c] = Idle]
  /\ UNCHANGED <<clock, variant, cloud, contentVars, rotated, started>>

(* ----------------------------- refresh -------------------------------- *)

\* a refresh that trusts any well-signed, unexpired token of an existing
\* account, without the comparison with the persisted token
refreshAccessTokenBranch_SignatureOnly(tok) ==
  IF tok = NoToken THEN "missing"
  ELSE IF ~jwtVerify(tok, "R", clock) THEN "verify"
  ELSE IF tok.id \notin DOMAIN users THEN "nouser"
  ELSE "ok"

\* the branch refreshAccessToken takes up to the comparison with the
\* persisted token
refreshAccessTokenBranch(tok) ==
  IF tok = NoToken THEN "missing"
  ELSE IF ~jwtVerify(tok, "R", clock) THEN "verify"
  ELSE IF tok.id \notin DOMAIN users THEN "nouser"
  ELSE IF tok # users[tok.id].refreshToken THEN "mismatch"
  ELSE "ok"

\* refreshAccessToken up to the comparison: cookie or body token,
\* jwt.verify, User.findById, incomingRefreshToken !== user.refreshToken
refreshAccessToken_findById(c, tok) ==
  /\ Arrives(c)
  /\ LET b == refreshAccessTokenBranch(tok)
     IN IF b = "ok"
          THEN /\ req' = [req EXCEPT ![c] = [Idle EXCEPT !.op = "refresh", !.pc = "rsave",
                                                         !.uid = tok.id, !.tok = tok,
                                                         !.t1 = clock,
                                                         !.stale = (tok \in rotated)]]
               /\ resp' = resp
          ELSE /\ LET f == refreshAccessTokenFailure(variant, b)
                  IN resp' = [NoResp EXCEPT !.op = "refresh", !.cause = b,
                                            !.status = f.status, !.msg = f.msg,
                                            !.tok = tok, !.stale = (tok \in rotated)]
               /\ req' = req
  /\ UNCHANGED <<clock, variant, cloud, contentVars, users, issued, rotated>>

\* refreshAccessToken from generateAccessToken to the response
refreshAccessToken_save(c) ==
  /\ req[c].op = "refresh" /\ req[c].pc = "rsave"
  /\ \E now \in req[c].t1..clock :
       LET u == req[c].uid
           accessToken == generateAccessToken(u, now)
           newRefreshToken == generateRefreshToken(u, now)
       IN /\ users' = save(u, req[c].tok, newRefreshToken)
          /\ resp' = [NoResp EXCEPT !.op = "refresh", !.cause = "ok", !.status = 200,
                                    !.msg = "Access token refreshed successfully",
                                    !.uid = u, !.tok = req[c].tok,
                                    !.stale = req[c].stale,
                                    !.cookieA = accessToken,
                                    !.cookieR = newRefreshToken]
          /\ issued' = issued \cup {newRefreshToken}
  /\ rotated' = rotated \cup {req[c].tok}
  /\ req' = [req EXCEPT ![c] = Idle]
  /\ UNCHANGED <<clock, variant, cloud, contentVars, started>>

(* ------------------------ authentication gate ------------------------- *)

GatedOps == {"logout", "changePassword", "getCurrentUser"}
\* the gated handlers that await the store before they answer
AwaitingOps == {"logout", "changePassword"}

\* a gate that prefers the Authorization header to the cookie
extractToken_HeaderFirst(cookie, header) == IF header # NoToken THEN header ELSE cookie

\* req.cookies.accessToken || req.headers.authorization?.split(" ")[1]
\* (a cookie that is absent or empty is NoToken: both are falsy)
extractToken(cookie, header) == IF cookie # NoToken THEN cookie ELSE header

\* a gate that checks the signature and not the expiry
authMiddlewareBranch_IgnoreExpiration(tok) ==
  IF tok = NoToken THEN "missing"
  ELSE IF tok.k # "A" THEN "verify"
  ELSE IF tok.id \notin DOMAIN users THEN "nouser"
  ELSE "ok"

\* the branch authMiddleware takes
authMiddlewareBranch(tok) ==
  IF tok = NoToken THEN "missing"
  ELSE IF ~jwtVerify(tok, "A", clock) THEN "verify"
  ELSE IF tok.id \notin DOMAIN users THEN "nouser"
  ELSE "ok"

\* the 401 authMiddleware answers on the failing branch b
authMiddlewareReject(op, b) ==
  [NoResp EXCEPT !.op = op, !.cause = b, !.status = 401,
                 !.msg = IF b = "nouser" THEN "Invalid access token"
                                         ELSE "Unauthorized request"]

\* a gate that renews the session of the account it admits
authMiddleware_RenewsSession(c, op, cookie, header) ==
  /\ Arrives(c)
  /\ LET tok == extractToken(cookie, header)
         b == authMiddlewareBranch(tok)
     IN IF b = "ok"
          THEN /\ req' = [req EXCEPT ![c] = [Idle EXCEPT !.op = op, !.pc = "handler",
                                                         !.uid = tok.id, !.tok = tok,
                                                         !.user = select({"password",
                                                                          "refreshToken"})]]
               /\ resp' = resp
               /\ users' = [users EXCEPT ![tok.id].refreshToken =
                                            generateRefreshToken(tok.id, clock)]
          ELSE /\ resp' = authMiddlewareReject(op, b)
               /\ req' = req
               /\ users' = users
  /\ UNCHANGED <<clock, variant, cloud, contentVars, issued, rotated>>

\* authMiddleware in front of the route `op`: on success req.user is the
\* account and next() starts the handler, which awaits the store; otherwise 401
authMiddleware(c, op, cookie, header) ==
  /\ Arrives(c)
  /\ LET tok == extractToken(cookie, header)
         b == authMiddlewareBranch(tok)
     IN IF b = "ok"
          THEN /\ req' = [req EXCEPT ![c] = [Idle EXCEPT !.op = op, !.pc = "handler",
                                                         !.uid = tok.id, !.tok = tok,
                                                         !.user = select({"password",
                                                                          "refreshToken"})]]
               /\ resp' = resp
          ELSE /\ resp' = authMiddlewareReject(op, b)
               /\ req' = req
  /\ UNCHANGED <<clock, variant, cloud, contentVars, users, issued, rotated>>

(* --------------------- handlers behind the gate ----------------------- *)

\* a logout that fails when the account holds no session to end
logOutUser_RequiresSession(c) ==
  /\ req[c].op = "logout" /\ req[c].pc = "handler"
  /\ users' = [users EXCEPT ![req[c].uid].refreshToken = NoToken]
  /\ resp' = [NoResp EXCEPT !.op = "logout", !.uid = req[c].uid,
                            !.cause = IF users[req[c].uid].refreshToken = NoToken
                                        THEN "nosession" ELSE "ok",
                            !.status = IF users[req[c].uid].refreshToken = NoToken
                                         THEN 500 ELSE 200,
                            !.msg = "User logged out successfully"]
  /\ req' = [req EXCEPT ![c] = Idle]
  /\ UNCHANGED <<clock, variant, cloud, contentVars, issued, rotated, started>>

\* logOutUser: findByIdAndUpdate(req.user._id, {$unset: {refreshToken: 1}}),
\* then 200 with both cookies cleared
logOutUser(c) ==
  /\ req[c].op = "logout" /\ req[c].pc = "handler"
  /\ users' = [users EXCEPT ![req[c].uid].refreshToken = NoToken]
  /\ resp' = [NoResp EXCEPT !.op = "logout", !.cause = "ok", !.status = 200,
                            !.msg = "User logged out successfully", !.uid = req[c].uid]
  /\ req' = [req EXCEPT ![c] = Idle]
  /\ UNCHANGED <<clock, variant, cloud, contentVars, issued, rotated, started>>

\* authMiddleware in front of getCurrentUser, which answers 200 with
\* req.user in the same turn that next() starts it: it awaits nothing
getCurrentUser(c, cookie, header) ==
  /\ Arrives(c)
  /\ LET tok == extractToken(cookie, header)
         b == authMiddlewareBranch(tok)
     IN resp' = IF b = "ok"
                  THEN [NoResp EXCEPT !.op = "getCurrentUser", !.cause = "ok",
                                      !.status = 200,
                                      !.msg = "User fetched successfully.",
                                      !.uid = tok.id, !.tok = tok,
                                      !.user = select({"password", "refreshToken"})]
                  ELSE authMiddlewareReject("getCurrentUser", b)
  /\ UNCHANGED <<clock, variant, cloud, contentVars, users, req, issued, rotated>>

\* changePassword up to the response: findById, isValidPassword(oldPassword),
\* user.password = currentPassword, user.save() started and not awaited, 200
changePassword_findById(c, oldPassword, currentPassword) ==
  /\ req[c].op = "changePassword" /\ req[c].pc = "handler"
  /\ IF isValidPassword(users[req[c].uid].password, oldPassword)
       THEN /\ req' = [req EXCEPT ![c] = [Idle EXCEPT !.op = "changePassword",
                                                      !.pc = "saving",
                                                      !.uid = req[c].uid,
                                                      !.newpw = currentPassword]]
            /\ resp' = [NoResp EXCEPT !.op = "changePassword", !.cause = "ok",
                                      !.status = 200,
                                      !.msg = "Password updated successfully.",
                                      !.uid = req[c].uid]
       ELSE /\ LET f == changePasswordFailure(variant)
               IN resp' = [NoResp EXCEPT !.op = "changePassword", !.cause = "badpw",
                                         !.status = f.status, !.msg = f.msg,
                                         !.uid = req[c].uid]
            /\ req' = [req EXCEPT ![c] = Idle]
  /\ UNCHANGED <<clock, variant, cloud, contentVars, users, issued, rotated, started>>

\* a hook that passes the modified password on as it was given
preSave_Unhashed(password) == [alg |-> "none", of |-> password]

\* userSchema.pre("save"): the password path was modified, so it is hashed
preSave(password) == argonHash(password)

\* a save that ends the account's session along with the password change
changePassword_save_EndsSession(c) ==
  /\ req[c].op = "changePassword" /\ req[c].pc = "saving"
  /\ users' = [users EXCEPT ![req[c].uid].password = preSave(req[c].newpw),
                            ![req[c].uid].refreshToken = NoToken]
  /\ req' = [req EXCEPT ![c] = Idle]
  /\ UNCHANGED <<clock, variant, cloud, contentVars, resp, issued, rotated, started>>

\* the save that changePassword started reaches the store
changePassword_save(c) ==
  /\ req[c].op = "changePassword" /\ req[c].pc = "saving"
  /\ users' = [users EXCEPT ![req[c].uid].password = preSave(req[c].newpw)]
  /\ req' = [req EXCEPT ![c] = Idle]
  /\ UNCHANGED <<clock, variant, cloud, contentVars, resp, issued, rotated, started>>

Next ==
  \/ Tick
  \/ \E c \in Clients, i \in LoginInputs : loginUser_findOne(c, i[1], i[2])
  \/ \E c \in Clients : loginUser_save(c)
  \/ \E c \in Clients, t \in RefreshInputs : refreshAccessToken_findById(c, t)
  \/ \E c \in Clients : refreshAccessToken_save(c)
  \/ \E c \in Clients, op \in AwaitingOps, i \in GateInputs :
       authMiddleware(c, op, i[1], i[2])
  \/ \E c \in Clients, i \in GateInputs : getCurrentUser(c, i[1], i[2])
  \/ \E c \in Clients : logOutUser(c)
  \/ \E c \in Clients, o \in Passwords, n \in Passwords : changePassword_findById(c, o, n)
  \/ \E c \in Clients : changePassword_save(c)

Spec == Init /\ [][Next]_vars

(* ------------------- the gate on fixed credentials -------------------- *)

\* a client holds an accessToken cookie and an Authorization header, each
\* any token or none, and sends its gated requests with both
InitGate ==
  /\ clock = 0
  /\ variant \in Variants
  /\ users = [u \in UserIds |->
                [email |-> EmailOf(u), password |-> argonHash(RegPassword(u)),
                 refreshToken |-> NoToken]]
  /\ \E cookie \in AccessInputs, header \in AccessInputs :
       req = [c \in Clients |-> [Idle EXCEPT !.cookie = cookie, !.header = header]]
  /\ resp = NoResp
  /\ issued = {}
  /\ rotated = {}
  /\ started = 0
  /\ NoContent

NextGate ==
  \/ Tick
  \/ \E c \in Clients, op \in AwaitingOps :
       authMiddleware(c, op, req[c].cookie, req[c].header)
  \/ \E c \in Clients : getCurrentUser(c, req[c].cookie, req[c].header)
  \/ \E c \in Clients : logOutUser(c)
  \/ \E c \in Clients, o \in Passwords, n \in Passwords : changePassword_findById(c, o, n)
  \/ \E c \in Clients : changePassword_save(c)

SpecGate == InitGate /\ [][NextGate]_vars

\* the session routes with the event loop's guarantee that a handler whose
\* awaited store operation has settled is resumed
SpecLive ==
  /\ Init
  /\ [][Next]_vars
  /\ \A c \in Clients :
       /\ WF_vars(loginUser_save(c))
       /\ WF_vars(refreshAccessToken_save(c))
       /\ WF_vars(logOutUser(c))
       /\ WF_vars(\E o \in Passwords, n \in Passwords : changePassword_findById(c, o, n))
       /\ WF_vars(changePassword_save(c))

(* ----------------------------- accounts ------------------------------- *)

\* String.prototype.toLowerCase on the handles and addresses of the model
toLowerCase(s) ==
  CASE s = "H1" -> "h1" [] s = "E1" -> "e1" [] s = "H3" -> "h3" [] s = "E3" -> "e3"
    [] OTHER -> s

\* userSchema.username: { lowercase: true, trim: true }, applied to stored
\* values and to query filters
usernameSetter(s) == toLowerCase(s)

\* userSchema.email: { lowecase: true, trim: true }: the misspelt option is
\* none of Mongoose's, so the address is kept as given
emailSetter(s) == s

\* the _id of the next document created
NewIds == <<"u4", "u5", "u6", "u7">>
FreshId ==
  LET free == {i \in 1..Len(NewIds) : NewIds[i] \notin DOMAIN users}
  IN NewIds[CHOOSE i \in free : \A j \in free : i <= j]

\* the unique indexes on username and email: a write of these stored values
\* to document id collides with another document
uniqueIndexViolated(id, username, email) ==
  \E u \in DOMAIN users \ {id} :
    users[u].username = username \/ users[u].email = email

\* registerUser: what each revision answers on each failing branch; "exists"
\* is the findOne hit, "duplicate" the E11000 of User.create, "upload" a
\* failed cloudinaryUpload
registerUserFailure(v, cause) ==
  CASE v = "part_005" ->
         (CASE cause = "missing" -> errorHandler(400, "All fields are required")
            [] cause = "exists" -> errorHandler(400, "User already exists.")
            [] cause = "upload" -> errorHandler(500, "Error uploading avatar")
            [] OTHER -> errorHandler(0, "E11000 duplicate key error"))
    [] v = "auth.controllers" ->
         (CASE cause = "missing" -> Resp(400, "All fields are required.")
            [] cause = "exists" -> Resp(409, "User already exists")
            [] OTHER -> Resp(500, "Internal server error"))
    [] OTHER -> errorHandler(0, "avatar is not defined")

\* the branch registerUser takes up to the findOne({$or: [{username}, {email}]})
registerUserBranch(username, email, password) ==
  IF username = "" \/ email = "" \/ password = "" THEN "missing"
  ELSE IF \E u \in DOMAIN users :
            \/ users[u].username = usernameSetter(username)
            \/ users[u].email = emailSetter(email)
       THEN "exists"
  ELSE "ok"

\* registerUser up to `if (existingUser)`
registerUser_findOne(c, username, email, password) ==
  /\ Arrives(c)
  /\ LET b == registerUserBranch(username, email, password)
     IN IF b = "ok"
          THEN /\ req' = [req EXCEPT ![c] = [Idle EXCEPT !.op = "register", !.pc = "create",
                                                         !.username = username,
                                                         !.email = email,
                                                         !.newpw = password]]
               /\ resp' = resp
          ELSE /\ LET f == registerUserFailure(variant, b)
                  IN resp' = [NoResp EXCEPT !.op = "register", !.cause = b,
                                            !.status = f.status, !.msg = f.msg,
                                            !.email = email]
               /\ req' = req
  /\ UNCHANGED <<clock, variant, cloud, contentVars, users, issued, rotated>>

\* registerUser from the uploads to the response: User.create runs the
\* setters, the pre-save hook and the unique indexes, then the created
\* document is read back without password and refreshToken
registerUser_create(c, uploaded) ==
  /\ req[c].op = "register" /\ req[c].pc = "create"
  /\ LET username == usernameSetter(req[c].username)
         email == emailSetter(req[c].email)
         id == FreshId
         b == IF ~uploaded THEN "upload"
              ELSE IF uniqueIndexViolated(id, username, email) THEN "duplicate"
              ELSE "ok"
     IN IF b = "ok"
          THEN /\ users' = [u \in DOMAIN users \cup {id} |->
                             IF u = id
                               THEN [username |-> username, email |-> email,
                                     password |-> preSave(req[c].newpw),
                                     refreshToken |-> NoToken,
                                     avatar |-> "uploaded", coverImage |-> "uploaded"]
                               ELSE users[u]]
               /\ resp' = [NoResp EXCEPT !.op = "register", !.cause = "ok",
                                         !.status = 201,
                                         !.msg = "User created successfully",
                                         !.uid = id, !.email = req[c].email,
                                         !.user = select({"password", "refreshToken"})]
          ELSE /\ LET f == registerUserFailure(variant, b)
                  IN resp' = [NoResp EXCEPT !.op = "register", !.cause = b,
                                            !.status = f.status, !.msg = f.msg,
                                            !.email = req[c].email]
               /\ users' = users
  /\ req' = [req EXCEPT ![c] = Idle]
  /\ UNCHANGED <<clock, variant, cloud, contentVars, issued, rotated, started>>

\* the routes behind the gate that change the account's profile
ProfileOps == {"updateAccountDetails", "updateAvatar", "updateCoverImage"}

\* updateAccountDetails: what each revision answers on each failing branch;
\* "duplicate" is the E11000 of findByIdAndUpdate
updateAccountDetailsFailure(v, cause) ==
  CASE v = "part_005" ->
         IF cause = "missing" THEN errorHandler(400, "All fields are required")
                              ELSE errorHandler(0, "E11000 duplicate key error")
    [] v = "auth.controllers" -> Resp(400, "All fields are required!")
    [] OTHER -> Resp(500, "Unable to update account details.")

\* an update that overwrites the whole document, the session along with it
updateAccountDetails_ReplacesDocument(c, username, email, serialised) ==
  /\ req[c].op = "updateAccountDetails" /\ req[c].pc = "handler"
  /\ users' = [users EXCEPT ![req[c].uid].username = usernameSetter(username),
                            ![req[c].uid].email = emailSetter(email),
                            ![req[c].uid].refreshToken = NoToken]
  /\ resp' = [NoResp EXCEPT !.op = "updateAccountDetails", !.cause = "ok",
                            !.status = 200, !.uid = req[c].uid, !.email = email]
  /\ req' = [req EXCEPT ![c] = Idle]
  /\ UNCHANGED <<clock, variant, cloud, contentVars, issued, rotated, started>>

\* updateAccountDetails behind the gate: findByIdAndUpdate($set) casts the
\* update through the setters and answers the updated document without its
\* password.  auth.controllers never awaits the query, which therefore never
\* runs, and hands the query object itself to res.json, which serialises it
\* or throws into the catch.
updateAccountDetails(c, username, email, serialised) ==
  /\ req[c].op = "updateAccountDetails" /\ req[c].pc = "handler"
  /\ LET id == req[c].uid
         b == IF username = "" \/ email = "" THEN "missing"
              ELSE IF variant = "auth.controllers" THEN "unawaited"
              ELSE IF uniqueIndexViolated(id, usernameSetter(username), emailSetter(email))
                THEN "duplicate"
              ELSE "ok"
     IN CASE b = "ok" ->
               /\ users' = [users EXCEPT ![id].username = usernameSetter(username),
                                         ![id].email = emailSetter(email)]
               /\ resp' = [NoResp EXCEPT !.op = "updateAccountDetails", !.cause = "ok",
                                         !.status = 200,
                                         !.msg = "Account details updated successfully.",
                                         !.uid = id, !.email = email,
                                         !.user = select({"password"})]
          [] b = "unawaited" ->
               /\ users' = users
               /\ resp' = [NoResp EXCEPT !.op = "updateAccountDetails",
                                         !.cause = "unawaited",
                                         !.status = IF serialised THEN 200 ELSE 500,
                                         !.msg = IF serialised
                                                   THEN "Account details updated successfully."
                                                   ELSE "Internal server error",
                                         !.uid = id, !.email = email]
          [] OTHER ->
               /\ users' = users
               /\ LET f == updateAccountDetailsFailure(variant, b)
                  IN resp' = [NoResp EXCEPT !.op = "updateAccountDetails", !.cause = b,
                                            !.status = f.status, !.msg = f.msg,
                                            !.uid = id, !.email = email]
  /\ req' = [req EXCEPT ![c] = Idle]
  /\ UNCHANGED <<clock, variant, cloud, contentVars, issued, rotated, started>>

\* updateAvatar behind the gate: upload, delete the old image, $set avatar,
\* answer the updated document without password and refreshToken; a failed
\* upload or deletion is a 500 in every revision
updateAvatar(c, uploaded) ==
  /\ req[c].op = "updateAvatar" /\ req[c].pc = "handler"
  /\ LET id == req[c].uid
     IN IF uploaded
          THEN /\ users' = [users EXCEPT ![id].avatar = "uploaded"]
               /\ resp' = [NoResp EXCEPT !.op = "updateAvatar", !.cause = "ok",
                                         !.status = 200,
                                         !.msg = "Avatar updated successfully.",
                                         !.uid = id,
                                         !.user = select({"password", "refreshToken"})]
          ELSE /\ users' = users
               /\ resp' = [NoResp EXCEPT !.op = "updateAvatar", !.cause = "upload",
                                         !.status = 500,
                                         !.msg = "Error uploading the avatar!",
                                         !.uid = id]
  /\ req' = [req EXCEPT ![c] = Idle]
  /\ UNCHANGED <<clock, variant, cloud, contentVars, issued, rotated, started>>

\* updateCoverImage behind the gate: as updateAvatar; part_005 sets
\* coverImage, the older revisions write the new image to avatar
updateCoverImage(c, uploaded) ==
  /\ req[c].op = "updateCoverImage" /\ req[c].pc = "handler"
  /\ LET id == req[c].uid
     IN IF uploaded
          THEN /\ users' = IF variant = "part_005"
                             THEN [users EXCEPT ![id].coverImage = "uploaded"]
                             ELSE [users EXCEPT ![id].avatar = "uploaded"]
               /\ resp' = [NoResp EXCEPT !.op = "updateCoverImage", !.cause = "ok",
                                         !.status = 200,
                                         !.msg = "Cover image updated successfully.",
                                         !.uid = id,
                                         !.user = select({"password", "refreshToken"})]
          ELSE /\ users' = users
               /\ resp' = [NoResp EXCEPT !.op = "updateCoverImage", !.cause = "upload",
                                         !.status = 500,
                                         !.msg = "Error uploading the cover image!",
                                         !.uid = id]
  /\ req' = [req EXCEPT ![c] = Idle]
  /\ UNCHANGED <<clock, variant, cloud, contentVars, issued, rotated, started>>

\* what the clients of the accounts specification send
RegisterInputs == {<<"h4", "e4">>, <<"h4", "E1">>, <<"H1", "e4">>, <<"h4", "e1">>,
                   <<"", "e4">>}
UpdateInputs == {<<"h9", "e9">>, <<"H3", "e1">>, <<"h1", "E3">>, <<"", "e1">>}
AccountLogins == {<<"e1", "p1">>, <<"e3", "p1">>}
AccountRefreshTokens == {Tok("R", id, 0) : id \in {"u1", "u3"}}
AccountAccessTokens == {Tok("A", id, 0) : id \in {"u1", "u3"}}

\* two registered accounts, the second with the session of an earlier login
InitAccounts ==
  /\ clock = 0
  /\ variant \in Variants
  /\ users = [u \in {"u1", "u3"} |->
                [username |-> IF u = "u1" THEN "h1" ELSE "h3",
                 email |-> IF u = "u1" THEN "e1" ELSE "e3",
                 password |-> argonHash("p1"),
                 refreshToken |-> IF u = "u1" THEN NoToken
                                              ELSE generateRefreshToken("u3", 0),
                 avatar |-> "registered", coverImage |-> "registered"]]
  /\ req = [c \in Clients |-> Idle]
  /\ resp = NoResp
  /\ issued = {generateRefreshToken("u3", 0)}
  /\ rotated = {}
  /\ started = 0
  /\ NoContent

NextAccounts ==
  \/ \E c \in Clients, i \in RegisterInputs : registerUser_findOne(c, i[1], i[2], "p1")
  \/ \E c \in Clients, uploaded \in BOOLEAN : registerUser_create(c, uploaded)
  \/ \E c \in Clients, i \in AccountLogins : loginUser_findOne(c, i[1], i[2])
  \/ \E c \in Clients : loginUser_save(c)
  \/ \E c \in Clients, t \in AccountRefreshTokens : refreshAccessToken_findById(c, t)
  \/ \E c \in Clients : refreshAccessToken_save(c)
  \/ \E c \in Clients, op \in AwaitingOps \cup ProfileOps, t \in AccountAccessTokens :
       authMiddleware(c, op, t, NoToken)
  \/ \E c \in Clients : logOutUser(c)
  \/ \E c \in Clients, o \in Passwords : changePassword_findById(c, o, "p2")
  \/ \E c \in Clients : changePassword_save(c)
  \/ \E c \in Clients, i \in UpdateInputs, serialised \in BOOLEAN :
       updateAccountDetails(c, i[1], i[2], serialised)
  \/ \E c \in Clients, uploaded \in BOOLEAN : updateAvatar(c, uploaded)
  \/ \E c \in Clients, uploaded \in BOOLEAN : updateCoverImage(c, uploaded)

SpecAccounts == InitAccounts /\ [][NextAccounts]_vars

(* ---------------------------- media host ------------------------------ *)
\* registerUser and updateAvatar of part_005 once more, this time split at
\* every awaited call to the media host, which registerUser_create and
\* updateAvatar above fold into the outcome `uploaded`.

MediaRegisterInputs == {<<"h4", "e4">>, <<"h4", "e1">>}

\* one registered account whose avatar and cover image are on the media host
InitMedia ==
  /\ clock = 0
  /\ variant = "part_005"
  /\ users = [u \in {"u1"} |->
                [username |-> "h1", email |-> "e1", password |-> argonHash("p1"),
                 refreshToken |-> NoToken,
                 avatar |-> Asset("", 0, "avatar"),
                 coverImage |-> Asset("", 0, "coverImage")]]
  /\ req = [c \in Clients |-> Idle]
  /\ resp = NoResp
  /\ issued = {}
  /\ rotated = {}
  /\ started = 0
  /\ cloud = {Asset("", 0, "avatar"), Asset("", 0, "coverImage")}
  /\ videos = <<>> /\ likes = {} /\ comments = <<>> /\ subscriptions = {}

\* registerUser: [avatar, coverImage] = await Promise.all([cloudinaryUpload(..),
\* cloudinaryUpload(..)]).  cloudinaryUpload answers the asset, or null when
\* the upload failed.  Without a cover image file its path is undefined: the
\* upload fails, fs.unlinkSync(undefined) throws inside cloudinaryUpload's
\* catch, the promise rejects, Promise.all rejects and the destructuring
\* assignment never runs, whatever became of the avatar's upload.
registerUser_uploads(c, coverSupplied, avatarUploaded, coverUploaded) ==
  /\ req[c].op = "register" /\ req[c].pc = "create"
  /\ LET avatar == IF avatarUploaded THEN Asset(c, started, "avatar") ELSE NoAsset
         coverImage == IF coverSupplied /\ coverUploaded
                         THEN Asset(c, started, "coverImage") ELSE NoAsset
     IN /\ cloud' = cloud \cup ({avatar, coverImage} \ {NoAsset})
        /\ req' = [req EXCEPT
                     ![c].n = started,
                     ![c].avatar = IF coverSupplied THEN avatar ELSE NoAsset,
                     ![c].coverImage = coverImage,
                     ![c].cause = IF ~coverSupplied THEN "rejected" ELSE "upload",
                     ![c].pc = IF avatar # NoAsset /\ coverImage # NoAsset
                                 THEN "store" ELSE "catch"]
  /\ UNCHANGED <<clock, variant, users, resp, issued, rotated, started, contentVars>>

\* registerUser: User.create, findById().select(), 201; an E11000 of the
\* unique indexes goes to the catch block
registerUser_store(c) ==
  /\ req[c].op = "register" /\ req[c].pc = "store"
  /\ LET username == usernameSetter(req[c].username)
         email == emailSetter(req[c].email)
         id == FreshId
     IN IF uniqueIndexViolated(id, username, email)
          THEN /\ req' = [req EXCEPT ![c].pc = "catch", ![c].cause = "duplicate"]
               /\ UNCHANGED <<users, resp>>
          ELSE /\ users' = [u \in DOMAIN users \cup {id} |->
                             IF u = id
                               THEN [username |-> username, email |-> email,
                                     password |-> preSave(req[c].newpw),
                                     refreshToken |-> NoToken,
                                     avatar |-> req[c].avatar,
                                     coverImage |-> req[c].coverImage]
                               ELSE users[u]]
               /\ resp' = [NoResp EXCEPT !.op = "register", !.cause = "ok",
                                         !.status = 201,
                                         !.msg = "User created successfully",
                                         !.uid = id, !.email = req[c].email,
                                         !.user = select({"password", "refreshToken"})]
               /\ req' = [req EXCEPT ![c] = Idle]
  /\ UNCHANGED <<clock, variant, issued, rotated, started, cloud, contentVars>>

\* registerUser's catch block: delete the assets whose handles the variables
\* avatar and coverImage hold, then next(error)
registerUser_catch(c) ==
  /\ req[c].op = "register" /\ req[c].pc = "catch"
  /\ cloud' = cloud \ {req[c].avatar, req[c].coverImage}
  /\ LET f == registerUserFailure(variant, IF req[c].cause = "upload" THEN "upload"
                                           ELSE "duplicate")
     IN resp' = [NoResp EXCEPT !.op = "register", !.cause = req[c].cause,
                               !.status = f.status, !.msg = f.msg,
                               !.email = req[c].email]
  /\ req' = [req EXCEPT ![c] = Idle]
  /\ UNCHANGED <<clock, variant, users, issued, rotated, started, contentVars>>

\* authMiddleware admits the request and updateAvatar runs to the end of
\* newAvatar = await cloudinaryUpload(req.file.path); req.user.avatar is the
\* avatar the gate read
updateAvatar_upload(c, tok, uploaded) ==
  /\ Arrives(c)
  /\ authMiddlewareBranch(tok) = "ok"
  /\ LET newAvatar == IF uploaded THEN Asset(c, started + 1, "avatar") ELSE NoAsset
     IN /\ cloud' = cloud \cup ({newAvatar} \ {NoAsset})
        /\ req' = [req EXCEPT ![c] = [Idle EXCEPT !.op = "updateAvatar",
                                                  !.pc = IF uploaded THEN "delete"
                                                                     ELSE "catch",
                                                  !.uid = tok.id, !.tok = tok,
                                                  !.n = started + 1,
                                                  !.old = users[tok.id].avatar,
                                                  !.avatar = newAvatar]]
  /\ UNCHANGED <<clock, variant, users, resp, issued, rotated, contentVars>>

\* updateAvatar: deleteFileFromCloudinary(req.user.avatar.public_id); the
\* host answers "ok" when it deleted the asset, "not found" when there is
\* none, and may fail
updateAvatar_delete(c, hostUp) ==
  /\ req[c].op = "updateAvatar" /\ req[c].pc = "delete"
  /\ IF hostUp /\ req[c].old \in cloud
       THEN /\ cloud' = cloud \ {req[c].old}
            /\ req' = [req EXCEPT ![c].pc = "update"]
       ELSE /\ cloud' = cloud
            /\ req' = [req EXCEPT ![c].pc = "catch"]
  /\ UNCHANGED <<clock, variant, users, resp, issued, rotated, started, contentVars>>

\* updateAvatar: findByIdAndUpdate($set avatar) and the 200; a store failure
\* goes to the catch block
updateAvatar_findByIdAndUpdate(c, storeUp) ==
  /\ req[c].op = "updateAvatar" /\ req[c].pc = "update"
  /\ IF storeUp
       THEN /\ users' = [users EXCEPT ![req[c].uid].avatar = req[c].avatar]
            /\ resp' = [NoResp EXCEPT !.op = "updateAvatar", !.cause = "ok",
                                      !.status = 200,
                                      !.msg = "Avatar updated successfully.",
                                      !.uid = req[c].uid,
                                      !.user = select({"password", "refreshToken"})]
            /\ req' = [req EXCEPT ![c] = Idle]
       ELSE /\ req' = [req EXCEPT ![c].pc = "catch"]
            /\ UNCHANGED <<users, resp>>
  /\ UNCHANGED <<clock, variant, issued, rotated, started, cloud, contentVars>>

\* updateAvatar's catch block: delete the new asset if there is one, then
\* next(error)
updateAvatar_catch(c) ==
  /\ req[c].op = "updateAvatar" /\ req[c].pc = "catch"
  /\ cloud' = cloud \ {req[c].avatar}
  /\ resp' = [NoResp EXCEPT !.op = "updateAvatar", !.cause = "failed",
                            !.status = 500, !.msg = "Error updating the avatar!",
                            !.uid = req[c].uid]
  /\ req' = [req EXCEPT ![c] = Idle]
  /\ UNCHANGED <<clock, variant, users, issued, rotated, started, contentVars>>

NextMedia ==
  \/ \E c \in Clients, i \in MediaRegisterInputs : registerUser_findOne(c, i[1], i[2], "p1")
  \/ \E c \in Clients, coverSupplied \in BOOLEAN, avatarUploaded \in BOOLEAN,
        coverUploaded \in BOOLEAN :
       registerUser_uploads(c, coverSupplied, avatarUploaded, coverUploaded)
  \/ \E c \in Clients : registerUser_store(c)
  \/ \E c \in Clients : registerUser_catch(c)
  \/ \E c \in Clients, uploaded \in BOOLEAN :
       updateAvatar_upload(c, generateAccessToken("u1", 0), uploaded)
  \/ \E c \in Clients, hostUp \in BOOLEAN : updateAvatar_delete(c, hostUp)
  \/ \E c \in Clients, storeUp \in BOOLEAN : updateAvatar_findByIdAndUpdate(c, storeUp)
  \/ \E c \in Clients : updateAvatar_catch(c)

SpecMedia == InitMedia /\ [][NextMedia]_vars

(* ------------------------------ content ------------------------------- *)
\* Videos, likes, comments and subscriptions.  Each handler is split at its
\* awaited store operations.  The Video, Like, Comment and Subscription
\* schemas are taken to declare the paths the handlers write and nothing
\* else: no compound unique index, no optimistic concurrency.

\* the three revisions kept in comment.controller.js: lines 1-238 hand errors
\* to next(), lines 240-545 answer in their catch block, lines 546-674 are
\* wrapped in asyncHandler and store the video's id in `video` where the
\* first two store it in `contentId`
ContentVariants == {"comment.controller/1", "comment.controller/2", "comment.controller/3"}

VideoIds == {"v1"}

\* the Comment document a revision creates for video v
Comment(v, owner, content) ==
  IF variant = "comment.controller/3"
    THEN [owner |-> owner, content |-> content, video |-> v, contentId |-> ""]
    ELSE [owner |-> owner, content |-> content, video |-> "", contentId |-> v]

\* the comment was made on video v
RefersTo(comment, v) == comment.video = v \/ comment.contentId = v

\* a collection with document k removed, and with document k added
Without(collection, k) == [j \in DOMAIN collection \ {k} |-> collection[j]]
With(collection, k, doc) ==
  [j \in DOMAIN collection \cup {k} |-> IF j = k THEN doc ELSE collection[j]]

\* one video of u1 with its files on the media host and one comment of u1
InitContent ==
  /\ clock = 0
  /\ variant \in ContentVariants
  /\ users = [u \in {"u1", "u3"} |->
                [username |-> IF u = "u1" THEN "h1" ELSE "h3",
                 email |-> IF u = "u1" THEN "e1" ELSE "e3",
                 password |-> argonHash("p1"), refreshToken |-> NoToken,
                 avatar |-> NoAsset, coverImage |-> NoAsset]]
  /\ req = [c \in Clients |-> Idle]
  /\ resp = NoResp
  /\ issued = {}
  /\ rotated = {}
  /\ started = 0
  /\ cloud = {Asset("", 0, "video"), Asset("", 0, "thumbnail")}
  /\ videos = [v \in VideoIds |-> [owner |-> "u1", views |-> 0]]
  /\ likes = {}
  /\ comments = [k \in {NoDoc} |-> Comment("v1", "u1", "a")]
  /\ subscriptions = {}

\* a request passes authMiddleware with access token tok and its handler
\* starts in slot c
Admitted(c, tok) == Arrives(c) /\ authMiddlewareBranch(tok) = "ok"

\* the handler in slot c answers and ends
Answer(c, op, cause, status) ==
  /\ resp' = [NoResp EXCEPT !.op = op, !.cause = cause, !.status = status,
                            !.uid = req[c].uid]
  /\ req' = [req EXCEPT ![c] = Idle]

\* the handler admitted with tok answers before it awaits anything further
AnswerAtOnce(tok, op, cause, status) ==
  /\ resp' = [NoResp EXCEPT !.op = op, !.cause = cause, !.status = status,
                            !.uid = tok.id]
  /\ req' = req

\* the handler admitted with tok goes on to position pc
GoOn(c, tok, op, pc, target) ==
  [req EXCEPT ![c] = [Idle EXCEPT !.op = op, !.pc = pc, !.uid = tok.id, !.tok = tok,
                                  !.target = target]]

\* the status answered for an ApiError thrown in a comment handler: the
\* first two revisions answer error.statusCode themselves or through
\* errorHandler; the third leaves it to asyncHandler, which either forwards
\* the error to errorHandler or does not
Thrown(statusCode, forwarded) ==
  IF variant = "comment.controller/3" /\ ~forwarded THEN 500 ELSE statusCode

\* incrementVideoView up to `video.views += 1`: Video.findById
incrementVideoView_findById(c, tok, v) ==
  /\ Admitted(c, tok)
  /\ IF v \in DOMAIN videos
       THEN /\ req' = [GoOn(c, tok, "incrementVideoView", "save", v)
                         EXCEPT ![c].views = videos[v].views + 1]
            /\ resp' = resp
       ELSE AnswerAtOnce(tok, "incrementVideoView", "novideo", 404)
  /\ UNCHANGED <<clock, variant, users, issued, rotated, cloud, contentVars>>

\* incrementVideoView: video.save() $sets views to the value computed from
\* the document that was read, then 200; saving a deleted document fails
incrementVideoView_save(c) ==
  /\ req[c].op = "incrementVideoView" /\ req[c].pc = "save"
  /\ IF req[c].target \in DOMAIN videos
       THEN /\ videos' = [videos EXCEPT ![req[c].target].views = req[c].views]
            /\ Answer(c, "incrementVideoView", "ok", 200)
       ELSE /\ videos' = videos
            /\ Answer(c, "incrementVideoView", "gone", 500)
  /\ UNCHANGED <<clock, variant, users, issued, rotated, started, cloud,
                 likes, comments, subscriptions>>

\* toggleVideoLike up to `if (existingLike)`: Like.findOne({video, likedBy})
toggleVideoLike_findOne(c, tok, v) ==
  /\ Admitted(c, tok)
  /\ LET existing == {l \in likes : l.video = v /\ l.likedBy = tok.id}
     IN IF existing = {}
          THEN req' = GoOn(c, tok, "toggleVideoLike", "create", v)
          ELSE \E l \in existing :
                 req' = [GoOn(c, tok, "toggleVideoLike", "deleteOne", v)
                           EXCEPT ![c].found = l.id]
  /\ UNCHANGED <<clock, variant, users, resp, issued, rotated, cloud, contentVars>>

\* toggleVideoLike: Like.deleteOne({_id}) and 200
toggleVideoLike_deleteOne(c) ==
  /\ req[c].op = "toggleVideoLike" /\ req[c].pc = "deleteOne"
  /\ likes' = {l \in likes : l.id # req[c].found}
  /\ Answer(c, "toggleVideoLike", "removed", 200)
  /\ UNCHANGED <<clock, variant, users, issued, rotated, started, cloud,
                 videos, comments, subscriptions>>

\* toggleVideoLike: Like.create({video, likedBy}) and 201
toggleVideoLike_create(c) ==
  /\ req[c].op = "toggleVideoLike" /\ req[c].pc = "create"
  /\ likes' = likes \cup {[id |-> DocId(c, started), video |-> req[c].target,
                           likedBy |-> req[c].uid]}
  /\ Answer(c, "toggleVideoLike", "added", 201)
  /\ UNCHANGED <<clock, variant, users, issued, rotated, started, cloud,
                 videos, comments, subscriptions>>

\* toggleSubscription up to `if (subscription)`:
\* Subscription.findOne({subscriber, channel})
toggleSubscription_findOne(c, tok, channel) ==
  /\ Admitted(c, tok)
  /\ LET existing == {s \in subscriptions : s.subscriber = tok.id /\ s.channel = channel}
     IN IF existing = {}
          THEN req' = GoOn(c, tok, "toggleSubscription", "create", channel)
          ELSE \E s \in existing :
                 req' = [GoOn(c, tok, "toggleSubscription", "deleteOne", channel)
                           EXCEPT ![c].found = s.id]
  /\ UNCHANGED <<clock, variant, users, resp, issued, rotated, cloud, contentVars>>

\* toggleSubscription: Subscription.deleteOne({_id}) and 200
toggleSubscription_deleteOne(c) ==
  /\ req[c].op = "toggleSubscription" /\ req[c].pc = "deleteOne"
  /\ subscriptions' = {s \in subscriptions : s.id # req[c].found}
  /\ Answer(c, "toggleSubscription", "removed", 200)
  /\ UNCHANGED <<clock, variant, users, issued, rotated, started, cloud,
                 videos, likes, comments>>

\* toggleSubscription: Subscription.create({subscriber, channel}) and 201
toggleSubscription_create(c) ==
  /\ req[c].op = "toggleSubscription" /\ req[c].pc = "create"
  /\ subscriptions' = subscriptions \cup {[id |-> DocId(c, started),
                                           subscriber |-> req[c].uid,
                                           channel |-> req[c].target]}
  /\ Answer(c, "toggleSubscription", "added", 201)
  /\ UNCHANGED <<clock, variant, users, issued, rotated, started, cloud,
                 videos, likes, comments>>

\* addCommentToVideo / addComment up to Comment.create: Video.findById
addCommentToVideo_findById(c, tok, v, forwarded) ==
  /\ Admitted(c, tok)
  /\ IF v \in DOMAIN videos
       THEN req' = GoOn(c, tok, "addCommentToVideo", "create", v) /\ resp' = resp
       ELSE AnswerAtOnce(tok, "addCommentToVideo", "novideo", Thrown(404, forwarded))
  /\ UNCHANGED <<clock, variant, users, issued, rotated, cloud, contentVars>>

\* addCommentToVideo / addComment: Comment.create and 201
addCommentToVideo_create(c) ==
  /\ req[c].op = "addCommentToVideo" /\ req[c].pc = "create"
  /\ comments' = With(comments, DocId(c, started),
                      Comment(req[c].target, req[c].uid, "a"))
  /\ Answer(c, "addCommentToVideo", "ok", 201)
  /\ UNCHANGED <<clock, variant, users, issued, rotated, started, cloud,
                 videos, likes, subscriptions>>

\* a lookup that lets every authenticated user through
ownerCheck_Anyone(c, tok, op, k, forwarded) ==
  /\ Admitted(c, tok)
  /\ IF k \notin DOMAIN comments
       THEN AnswerAtOnce(tok, op, "nocomment", Thrown(404, forwarded))
       ELSE req' = GoOn(c, tok, op, "write", k) /\ resp' = resp

\* updateComment and deleteComment up to their write: Comment.findById, 404
\* when there is none, 403 when comment.owner is not req.user._id
ownerCheck(c, tok, op, k, forwarded) ==
  /\ Admitted(c, tok)
  /\ IF k \notin DOMAIN comments
       THEN AnswerAtOnce(tok, op, "nocomment", Thrown(404, forwarded))
       ELSE IF comments[k].owner # tok.id
         THEN AnswerAtOnce(tok, op, "notowner", Thrown(403, forwarded))
         ELSE req' = GoOn(c, tok, op, "write", k) /\ resp' = resp

\* updateComment up to comment.save()
updateComment_findById(c, tok, k, forwarded) ==
  /\ ownerCheck(c, tok, "updateComment", k, forwarded)
  /\ UNCHANGED <<clock, variant, users, issued, rotated, cloud, contentVars>>

\* updateComment: comment.content = content; comment.save(); 200.  Saving a
\* document that was deleted meanwhile fails.
updateComment_save(c, content) ==
  /\ req[c].op = "updateComment" /\ req[c].pc = "write"
  /\ IF req[c].target \in DOMAIN comments
       THEN /\ comments' = [comments EXCEPT ![req[c].target].content = content]
            /\ Answer(c, "updateComment", "ok", 200)
       ELSE /\ comments' = comments
            /\ Answer(c, "updateComment", "gone", 500)
  /\ UNCHANGED <<clock, variant, users, issued, rotated, started, cloud,
                 videos, likes, subscriptions>>

\* deleteComment up to Comment.findByIdAndDelete
deleteComment_findById(c, tok, k, forwarded) ==
  /\ ownerCheck(c, tok, "deleteComment", k, forwarded)
  /\ UNCHANGED <<clock, variant, users, issued, rotated, cloud, contentVars>>

\* deleteComment: Comment.findByIdAndDelete and 200
deleteComment_findByIdAndDelete(c) ==
  /\ req[c].op = "deleteComment" /\ req[c].pc = "write"
  /\ comments' = Without(comments, req[c].target)
  /\ Answer(c, "deleteComment", "ok", 200)
  /\ UNCHANGED <<clock, variant, users, issued, rotated, started, cloud,
                 videos, likes, subscriptions>>

\* deleteVideo up to the media host: Video.findById.  Its route has no
\* authMiddleware, and its catch block reads error.status, which no ApiError
\* has, so every failure is a 500.
deleteVideo_findById(c, v) ==
  /\ Arrives(c)
  /\ IF v \in DOMAIN videos
       THEN /\ req' = [req EXCEPT ![c] = [Idle EXCEPT !.op = "deleteVideo",
                                                      !.pc = "destroy", !.target = v]]
            /\ resp' = resp
       ELSE /\ resp' = [NoResp EXCEPT !.op = "deleteVideo", !.cause = "novideo",
                                      !.status = 500]
            /\ req' = req
  /\ UNCHANGED <<clock, variant, users, issued, rotated, cloud, contentVars>>

\* deleteVideo: Promise.all of the two deleteFileFromCloudinary calls; any
\* result other than "ok" is a 500
deleteVideo_destroy(c, hostUp) ==
  /\ req[c].op = "deleteVideo" /\ req[c].pc = "destroy"
  /\ LET files == {Asset("", 0, "video"), Asset("", 0, "thumbnail")}
     IN IF hostUp /\ files \subseteq cloud
          THEN /\ cloud' = cloud \ files
               /\ req' = [req EXCEPT ![c].pc = "deleteMany"]
               /\ resp' = resp
          ELSE /\ cloud' = cloud
               /\ Answer(c, "deleteVideo", "host", 500)
  /\ UNCHANGED <<clock, variant, users, issued, rotated, started, contentVars>>

\* deleteVideo: Like.deleteMany({video}) and Comment.deleteMany({video}).
\* A Comment schema without a `video` path (the first two revisions) makes
\* the filter empty under strictQuery, which then matches every comment, and
\* leaves it matching no comment otherwise.
deleteVideo_deleteMany(c, strictQuery) ==
  /\ req[c].op = "deleteVideo" /\ req[c].pc = "deleteMany"
  /\ likes' = {l \in likes : l.video # req[c].target}
  /\ comments' = IF variant # "comment.controller/3" /\ strictQuery
                   THEN <<>>
                   ELSE [k \in {j \in DOMAIN comments :
                                  comments[j].video # req[c].target} |-> comments[k]]
  /\ req' = [req EXCEPT ![c].pc = "findByIdAndDelete"]
  /\ UNCHANGED <<clock, variant, users, resp, issued, rotated, started, cloud,
                 videos, subscriptions>>

\* deleteVideo: Video.findByIdAndDelete and 200
deleteVideo_findByIdAndDelete(c) ==
  /\ req[c].op = "deleteVideo" /\ req[c].pc = "findByIdAndDelete"
  /\ videos' = Without(videos, req[c].target)
  /\ Answer(c, "deleteVideo", "ok", 200)
  /\ UNCHANGED <<clock, variant, users, issued, rotated, started, cloud,
                 likes, comments, subscriptions>>

\* the access tokens of the two accounts
ViewerTokens == {generateAccessToken(u, 0) : u \in {"u1", "u3"}}

NextContent ==
  \/ \E c \in Clients, t \in ViewerTokens, v \in VideoIds : incrementVideoView_findById(c, t, v)
  \/ \E c \in Clients : incrementVideoView_save(c)
  \/ \E c \in Clients, t \in ViewerTokens, v \in VideoIds : toggleVideoLike_findOne(c, t, v)
  \/ \E c \in Clients : toggleVideoLike_deleteOne(c)
  \/ \E c \in Clients : toggleVideoLike_create(c)
  \/ \E c \in Clients, t \in ViewerTokens : toggleSubscription_findOne(c, t, "u1")
  \/ \E c \in Clients : toggleSubscription_deleteOne(c)
  \/ \E c \in Clients : toggleSubscription_create(c)
  \/ \E c \in Clients, t \in ViewerTokens, v \in VideoIds, forwarded \in BOOLEAN :
       addCommentToVideo_findById(c, t, v, forwarded)
  \/ \E c \in Clients : addCommentToVideo_create(c)
  \/ \E c \in Clients, t \in ViewerTokens, forwarded \in BOOLEAN :
       updateComment_findById(c, t, NoDoc, forwarded)
  \/ \E c \in Clients : updateComment_save(c, "b")
  \/ \E c \in Clients, t \in ViewerTokens, forwarded \in BOOLEAN :
       deleteComment_findById(c, t, NoDoc, forwarded)
  \/ \E c \in Clients : deleteComment_findByIdAndDelete(c)
  \/ \E c \in Clients, v \in VideoIds : deleteVideo_findById(c, v)
  \/ \E c \in Clients, hostUp \in BOOLEAN : deleteVideo_destroy(c, hostUp)
  \/ \E c \in Clients, strictQuery \in BOOLEAN : deleteVideo_deleteMany(c, strictQuery)
  \/ \E c \in Clients : deleteVideo_findByIdAndDelete(c)

SpecContent == InitContent /\ [][NextContent]_vars

(* ------------------------------ claims -------------------------------- *)

\* the refresh operation would accept tok in the current state
Accepted(tok) == refreshAccessTokenBranch(tok) = "ok"

\* client c completes, in this step, the handler step it was waiting at
Completes(c, op, pc) == req[c].op = op /\ req[c].pc = pc /\ req'[c].pc # pc

\* a response is sent in this step
Responds == resp' # resp

\* C1: once a refresh presenting a token has succeeded, every later refresh
\* presenting that token, still validly signed and unexpired, is rejected
\* with status 401.
C1_SupersededTokenRejected ==
  /\ \A c \in Clients : req[c].op = "refresh" /\ req[c].pc = "rsave" => ~req[c].stale
  /\ resp.op = "refresh" /\ resp.stale /\ resp.cause # "verify" => resp.status = 401

\* C2: at most one refresh token is accepted for an account, and a successful
\* login or refresh leaves no refresh token issued earlier for that account
\* accepted.
C2_IssuingRevokesEarlierTokens ==
  [][/\ Cardinality({t \in RefreshTokens : Accepted(t)}) <= 1
     /\ \A c \in Clients :
          Completes(c, "login", "lsave") \/ Completes(c, "refresh", "rsave")
            => \A t \in issued : t # users'[req[c].uid].refreshToken]_vars

C4_RefreshIssuesNewToken ==
  resp.op = "refresh" /\ resp.status = 200 => resp.cookieR # resp.tok

\* C5: a completed logout leaves the persisted refresh token absent, and a
\* refresh that arrives while it is absent and presents a token issued before
\* the logout is not admitted and is answered with status 401.
C5_LogoutClearsSession ==
  [][/\ \A c \in Clients :
          Completes(c, "logout", "handler") => users'[req[c].uid].refreshToken = NoToken
     /\ \A c \in Clients :
          req[c].pc = "idle" /\ req'[c].pc = "rsave"
            => users[req'[c].uid].refreshToken # NoToken
     /\ started' # started /\ Responds /\ resp'.op = "refresh" /\ resp'.tok \in issued
          /\ resp'.tok.id \in UserIds /\ users[resp'.tok.id].refreshToken = NoToken
          => resp'.status = 401]_vars

\* C6: when two refreshes presenting the same valid token overlap and both
\* succeed, the two refresh tokens they return differ and the one persisted is
\* the one returned last.
C6_ConcurrentRefreshOneSurvives ==
  [][\A c \in Clients :
       /\ resp.op = "refresh" /\ resp.status = 200 /\ ~resp.stale
       /\ Completes(c, "refresh", "rsave") /\ req[c].tok = resp.tok /\ ~req[c].stale
       => /\ resp'.cookieR # resp.cookieR
          /\ users'[req[c].uid].refreshToken = resp'.cookieR]_vars

\* C7: a login with an account's email and the password it was registered
\* with (while that password is still the stored one) is never refused, and a
\* login that passed the password check answers 200, sets both cookies and
\* leaves the persisted refresh token equal to the refreshToken cookie.
C7_LoginRoundTrip ==
  [][/\ \A u \in UserIds :
          /\ Responds /\ resp'.op = "login" /\ resp'.cause # "ok"
          /\ resp'.email = users[u].email /\ resp'.password = RegPassword(u)
          => users[u].password # preSave(RegPassword(u))
     /\ \A c \in Clients :
          Completes(c, "login", "lsave")
            => /\ resp'.op = "login" /\ resp'.status = 200
               /\ resp'.cookieA.k = "A" /\ resp'.cookieR.k = "R"
               /\ resp'.cookieA.id = req[c].uid /\ resp'.cookieR.id = req[c].uid
               /\ users'[req[c].uid].refreshToken = resp'.cookieR]_vars

\* C8: a failed login sets no cookie, issues no token and leaves every
\* account unchanged, and a wrong password is answered with a 4xx status.
C8_FailedLoginChangesNothing ==
  [][Responds /\ resp'.op = "login" /\ resp'.cause # "ok"
       => /\ resp'.cookieA = NoToken /\ resp'.cookieR = NoToken
          /\ users' = users /\ issued' = issued
          /\ (resp'.cause = "badpw" => resp'.status \in 400..499)]_vars

\* C9: a login refused for an unknown email and a login refused for a wrong
\* password are answered with the same status and the same body.
C9_LoginHidesRegistration ==
  [][/\ resp.op = "login" /\ resp.cause = "nouser"
     /\ resp'.op = "login" /\ resp'.cause = "badpw"
     => resp'.status = resp.status /\ resp'.msg = resp.msg]_vars

\* C10: the gate hands a request to its handler only when the access token
\* is signed with the access secret, unexpired, and names an existing account,
\* which becomes req.user; any other request through the gate is answered 401
\* and changes nothing, and a gated handler runs only behind a passed gate.
C10_GateAdmitsOnlyValidTokens ==
  [][/\ \A c \in Clients :
          req[c].pc = "idle" /\ req'[c].pc = "handler"
            => LET t == req'[c].tok
               IN /\ req'[c].op \in GatedOps
                  /\ jwtVerify(t, "A", clock)
                  /\ t.id \in UserIds
                  /\ req'[c].uid = t.id
                  /\ users' = users /\ resp' = resp
     /\ started' # started /\ Responds /\ resp'.op \in GatedOps
          => /\ users' = users /\ req' = req
             /\ \/ resp'.status = 401
                \/ /\ resp'.op = "getCurrentUser" /\ resp'.status = 200
                   /\ jwtVerify(resp'.tok, "A", clock)
                   /\ resp'.tok.id \in UserIds /\ resp'.uid = resp'.tok.id
     /\ started' = started /\ Responds /\ resp'.op \in GatedOps
          => \E c \in Clients : Completes(c, resp'.op, "handler")
     /\ \A c \in Clients :
          req[c].op \in GatedOps /\ req[c].pc # "handler" /\ req[c].pc # "idle"
            => req[c].op = "changePassword" /\ req[c].pc = "saving"]_vars

\* one request waits behind a passed gate while another was refused because
\* its well-signed token names no account
C10_Witness ==
  /\ \E c \in Clients : req[c].pc = "handler" /\ req[c].uid \in UserIds
  /\ resp.op \in GatedOps /\ resp.cause = "nouser" /\ resp.status = 401

\* a request is answered by the gate, or by getCurrentUser right behind it,
\* in the step in which it arrives
GateAnswers == started' # started /\ req' = req /\ resp'.op \in GatedOps

\* the gate admits a request in this step
GateAdmits == \E c \in Clients : req[c].pc = "idle" /\ req'[c].pc = "handler"

\* C12: whether the gate admits or refuses a request, it leaves every account
\* record unchanged, issues no token and sets no cookie.
C12_GateIsSideEffectFree ==
  [][/\ GateAdmits => users' = users /\ issued' = issued /\ rotated' = rotated
                       /\ resp' = resp
     /\ GateAnswers => /\ users' = users /\ issued' = issued /\ rotated' = rotated
                       /\ resp'.cookieA = NoToken /\ resp'.cookieR = NoToken]_vars

\* the gate has admitted a request of an account that holds a session
C12_Witness ==
  \E c \in Clients :
    /\ req[c].pc = "handler"
    /\ users[req[c].uid].refreshToken # NoToken
    /\ users[req[c].uid].refreshToken \in issued

\* C14: a change-password, at its response and when its save lands, leaves
\* the account's persisted refresh token as it was, and a refresh token that
\* was accepted before the step is accepted after it.
C14_ChangePasswordKeepsSession ==
  [][\A c \in Clients :
       Completes(c, "changePassword", "handler") \/ Completes(c, "changePassword", "saving")
         => /\ users'[req[c].uid].refreshToken = users[req[c].uid].refreshToken
            /\ \A t \in RefreshTokens :
                 refreshAccessTokenBranch(t) = "ok" => refreshAccessTokenBranch(t)' = "ok"]_vars

\* a changed password has been saved on an account whose refresh token is
\* still accepted
C14_Witness ==
  /\ users["u1"].password = preSave("p2")
  /\ resp.op = "changePassword" /\ resp.status = 200
  /\ users["u1"].refreshToken # NoToken
  /\ Accepted(users["u1"].refreshToken)

\* C15: a change-password whose old password does not verify is answered
\* 401 and leaves every account, the password hash included, unchanged.
C15_BadOldPasswordRefused ==
  [][\A c \in Clients :
       /\ Completes(c, "changePassword", "handler")
       /\ req'[c].pc = "idle"
       => resp'.status = 401 /\ users' = users]_vars

\* C16: a logout behind a passed gate answers 200 and leaves the persisted
\* refresh token absent and nothing else changed; when the token is absent
\* already (a second logout) it changes nothing at all.
C16_LogoutIsIdempotent ==
  [][\A c \in Clients :
       Completes(c, "logout", "handler")
         => /\ resp'.op = "logout" /\ resp'.status = 200
            /\ users' = [users EXCEPT ![req[c].uid].refreshToken = NoToken]
            /\ users[req[c].uid].refreshToken = NoToken => users' = users]_vars

\* after a login, one logout has answered 200 and cleared the session while
\* a second logout of the same account waits behind the gate
C16_Witness ==
  /\ resp.op = "logout" /\ resp.status = 200 /\ issued # {}
  /\ \E c \in Clients :
       /\ req[c].op = "logout" /\ req[c].pc = "handler" /\ req[c].uid = resp.uid
       /\ users[req[c].uid].refreshToken = NoToken

\* C17: a refresh that is refused is answered 401 whatever the cause, sets
\* no cookie and leaves every account unchanged.
C17_FailedRefreshIs401 ==
  [][started' # started /\ req' = req /\ resp'.op = "refresh"
       => /\ resp'.status = 401
          /\ resp'.cookieA = NoToken /\ resp'.cookieR = NoToken
          /\ users' = users]_vars

\* the slot the next request is served in
ArrivingSlot == IF req["c1"].pc = "idle" THEN "c1" ELSE "c2"

\* C11: a gated request that carries an accessToken cookie is decided on the
\* cookie alone, whatever the Authorization header holds: it is admitted as
\* the cookie's account exactly when the cookie's token is signed with the
\* access secret, unexpired and names an existing account, and is answered
\* 401 otherwise.
C11_CookieTakesPrecedence ==
  [][LET c == ArrivingSlot
         cookie == req[c].cookie
     IN started' # started /\ cookie # NoToken
          => IF jwtVerify(cookie, "A", clock) /\ cookie.id \in DOMAIN users
               THEN \/ /\ req'[c].pc = "handler"
                       /\ req'[c].tok = cookie /\ req'[c].uid = cookie.id
                    \/ /\ req' = req /\ resp'.op = "getCurrentUser"
                       /\ resp'.status = 200 /\ resp'.uid = cookie.id
               ELSE req' = req /\ resp'.op \in GatedOps /\ resp'.status = 401]_vars

\* the gate has refused a request whose cookie is malformed although its
\* Authorization header holds a token the gate would admit
C11_Witness ==
  /\ started > 0 /\ resp.op \in GatedOps /\ resp.status = 401
  /\ req["c1"].pc = "idle" /\ req["c1"].cookie = JunkToken
  /\ authMiddlewareBranch(req["c1"].header) = "ok"

\* a login, refresh or logout of account u completes in this step
SessionStep(u) ==
  \E c \in Clients :
    /\ req[c].uid = u
    /\ \/ Completes(c, "login", "lsave")
       \/ Completes(c, "refresh", "rsave")
       \/ Completes(c, "logout", "handler")

\* C13: no step removes an account, and a step changes the persisted refresh
\* token of an existing account only when it is the completion of a login,
\* refresh or logout acting on that very account; register, change-password,
\* get-current-user and the three profile updates change none.
C13_OnlySessionOpsWriteRefreshToken ==
  [][/\ DOMAIN users \subseteq DOMAIN users'
     /\ \A u \in DOMAIN users :
          users'[u].refreshToken # users[u].refreshToken => SessionStep(u)]_vars

\* C13's case: after a registration created an account, an
\* update-account-details succeeded on an account that holds a session
C13_Witness ==
  /\ resp.op = "updateAccountDetails" /\ resp.cause = "ok" /\ resp.status = 200
  /\ users[resp.uid].refreshToken # NoToken
  /\ "u4" \in DOMAIN users

\* C18: in every reachable state no two accounts have the same case-normalized
\* handle and no two accounts have the same case-normalized email.
C18_HandlesAndEmailsUnique ==
  \A u, w \in DOMAIN users :
    u # w => /\ toLowerCase(users[u].username) # toLowerCase(users[w].username)
             /\ toLowerCase(users[u].email) # toLowerCase(users[w].email)

\* C19: a registration refused because its email or its handle is that of an
\* existing account is answered with status 409 and leaves the accounts as
\* they were.
C19_DuplicateRegistrationIs409 ==
  [][Responds /\ resp'.op = "register" /\ resp'.cause \in {"exists", "duplicate"}
       => resp'.status = 409 /\ users' = users]_vars

\* C20: the account projection of every response, and the req.user of every
\* request in flight, carries neither the password nor the refresh token.
C20_ProjectionsOmitSecrets ==
  /\ resp.user \cap {"password", "refreshToken"} = {}
  /\ \A c \in Clients : req[c].user \cap {"password", "refreshToken"} = {}

C22_EveryRequestAnswered ==
  /\ [](resp.op # "none" => resp.status # 0)
  /\ \A c \in Clients : (req[c].pc # "idle") ~> (req[c].pc = "idle")

\* C26: a step takes an account's persisted refresh token from absent to
\* present only when it is the completion of a login of that account; a
\* refresh that had read the account before a logout cleared the token does
\* not write one.
C26_RefreshOnlyReplaces ==
  [][\A u \in DOMAIN users :
       users[u].refreshToken = NoToken /\ users'[u].refreshToken # NoToken
         => \E c \in Clients : Completes(c, "login", "lsave") /\ req[c].uid = u]_vars

\* C27: while a change-password that has answered 200 has not been
\* overtaken by another one, a login of that account which passes the
\* password check passed it against the new password's digest, and no login
\* of that account with the new password is refused.
C27_NewPasswordPersistedAtResponse ==
  [][\A c \in Clients :
       req[c].op = "changePassword" /\ req[c].pc = "saving"
       /\ (\A d \in Clients \ {c} : req[d].op # "changePassword")
       => LET u == req[c].uid
          IN /\ \A d \in Clients :
                  req[d].pc = "idle" /\ req'[d].pc = "lsave" /\ req'[d].uid = u
                    => users[u].password = preSave(req[c].newpw)
             /\ Responds /\ resp'.op = "login" /\ resp'.cause # "ok"
                  /\ resp'.email = users[u].email
                  => resp'.password # req[c].newpw]_vars

\* the assets that the request served in slot c has uploaded
UploadedBy(c) == {a \in cloud : a.by = c /\ a.n = req[c].n}

\* C23: when a registration ends in an error, none of the assets its request
\* uploaded is left on the media host, and no account was created.
C23_RegistrationRollsBackUploads ==
  [][\A c \in Clients :
       Completes(c, "register", "catch")
         => /\ \A a \in UploadedBy(c) : a \notin cloud'
            /\ users' = users
            /\ resp'.op = "register" /\ resp'.status >= 400]_vars

\* C28: the avatar that an account references is on the media host whenever
\* no update-avatar request of that account is in flight.
C28_AvatarReferenceExists ==
  \A u \in DOMAIN users :
    (\A c \in Clients : ~(req[c].op = "updateAvatar" /\ req[c].uid = u))
      => users[u].avatar \in cloud

\* C30: every incrementVideoView request that responds 200 raises the
\* video's stored view count by exactly one, so that N such responses leave
\* the count at its initial value plus N.
C30_NoViewLost ==
  [][\A c \in Clients :
       (Completes(c, "incrementVideoView", "save") /\ resp'.status = 200)
         => /\ req[c].target \in DOMAIN videos'
            /\ videos'[req[c].target].views = videos[req[c].target].views + 1]_vars

\* C29: the store never holds two Like records of the same user for the same
\* video, nor two Subscription records of the same subscriber for the same
\* channel.
C29_OneRecordPerPair ==
  /\ \A l1, l2 \in likes :
       (l1.video = l2.video /\ l1.likedBy = l2.likedBy) => l1 = l2
  /\ \A s1, s2 \in subscriptions :
       (s1.subscriber = s2.subscriber /\ s1.channel = s2.channel) => s1 = s2

\* C24: when deleteVideo responds 200 for a video, the video record is gone
\* and no Like and no Comment referring to that video is left in the store.
C24_DeleteVideoRemovesAll ==
  [][\A c \in Clients :
       (Completes(c, "deleteVideo", "findByIdAndDelete") /\ resp'.status = 200)
         => /\ req[c].target \notin DOMAIN videos'
            /\ \A l \in likes' : l.video # req[c].target
            /\ \A k \in DOMAIN comments' : ~RefersTo(comments'[k], req[c].target)]_vars

\* the two handlers that the comment's owner alone may use
CommentOps == {"updateComment", "deleteComment"}

====
